---- MODULE Spec2Model ----
(***************************************************************************)
(* Model of the AI .NET upgrader pipeline: the seven pipeline nodes of     *)
(* langgraph_app.py and their orchestrator run_graph_invoke, the NuGet     *)
(* version resolver of utils/nuget_helper.py and the repackager of         *)
(* utils/file_utils.py.                                                    *)
(*                                                                         *)
(* Python values are modelled as follows.  A dict is a function whose      *)
(* DOMAIN is its key set; a list is a sequence; None is the string "None"  *)
(* where strings are expected and NoneVal (a one-token tuple) where a      *)
(* version or a token is expected.  A version string is the sequence of    *)
(* its parts, the pre-release separator "-" being a part of its own, so    *)
(* that '"-" not in v' is computed rather than assumed.  File text is a    *)
(* sequence of tokens, the line ends among them.                           *)
(***************************************************************************)
EXTENDS Integers, Sequences, FiniteSets, TLC

VARIABLES
    fs,             \* the extracted project tree at uploaded_file_path
    initial_state,  \* the dict the caller hands to run_graph_invoke
    mode,           \* where run_graph_invoke is
    node,           \* the next pipeline node to run in the current attempt
    state,          \* the state dict threaded through the current attempt
    ans,            \* what the outside world answered in the current attempt
    result,         \* the dict returned to the caller (empty until returned)
    trace,          \* the nodes executed so far in this call, in order
    attemptStart,   \* Len(trace) when the current attempt started
    raisedIn,       \* the nodes that raised so far in this call
    rv,             \* one call of the version resolver / scan step
    zp,             \* one call of create_upgraded_zip
    pv              \* one call on a completion response: parse or diff viewer

vars == <<fs, initial_state, mode, node, state, ans, result, trace,
          attemptStart, raisedIn, rv, zp, pv>>

pipelineVars == <<fs, initial_state, mode, node, state, ans, result, trace,
                  attemptStart, raisedIn>>

-----------------------------------------------------------------------------
(* Bounds of the model *)

MaxSalt == 2
MaxVersions == 3
MaxText == 4

-----------------------------------------------------------------------------
(* Python values *)

None == "None"
NoneVal == <<"None">>
EmptyDict == <<>>

Truthy(s) == s # "" /\ s # None

Get(d, k, default) == IF k \in DOMAIN d THEN d[k] ELSE default

Put(d, k, v) == [x \in DOMAIN d \cup {k} |-> IF x = k THEN v ELSE d[x]]

Last(s) == s[Len(s)]

Range(s) == {s[i] : i \in 1..Len(s)}

RECURSIVE Flatten(_)
Flatten(ss) == IF ss = <<>> THEN <<>> ELSE Head(ss) \o Flatten(Tail(ss))

\* All orders in which a set can be listed: list(set(xs)) yields one of them.
RECURSIVE Listings(_)
Listings(S) ==
    IF S = {} THEN {<<>>}
    ELSE UNION {{<<x>> \o l : l \in Listings(S \ {x})} : x \in S}

-----------------------------------------------------------------------------
(* The file system: a tree is the sequence of its files in os.walk order.  *)
(* A file has its path relative to the root, the kind its name gives it    *)
(* (what f.endswith(".csproj") and f.lower() == "nuget.config" decide) and *)
(* its text.                                                               *)

Root == "/tmp/upload"

Join(root, rel) == <<root, rel>>

RelPath(p, root) == p[2]

IsCsproj(f) == f.kind = "csproj"

IsNugetConfig(f) == f.kind = "nuget.config"

read_text(tree, p) ==
    LET hits == SelectSeq(tree, LAMBDA f : Join(Root, f.rel) = p)
    IN  IF hits = <<>> THEN <<>> ELSE hits[1].text

collect_csproj_files(tree, root_dir) ==
    LET cs == SelectSeq(tree, IsCsproj)
    IN  [i \in 1..Len(cs) |-> Join(root_dir, cs[i].rel)]

\* re.findall(r'<add key=".*?" value="(.*?)"', txt): the values, in order.
FindAddValues(text) ==
    LET adds == SelectSeq(text, LAMBDA t : t[1] = "add")
    IN  [i \in 1..Len(adds) |-> adds[i][2]]

\* The feeds list before list(set(feeds)).
ConfiguredFeeds(tree) ==
    LET cfgs == SelectSeq(tree, IsNugetConfig)
    IN  Flatten([i \in 1..Len(cfgs) |-> FindAddValues(cfgs[i].text)])

\* The lists list(set(feeds)) may return: every order of the distinct values.
detect_private_feeds(tree, project_root) == Listings(Range(ConfiguredFeeds(tree)))

\* re.findall(r'<PackageReference\s+Include="..."\s+Version="..."', text)
FindPackageReferences(text) ==
    LET refs == SelectSeq(text, LAMBDA t : t[1] = "ref")
    IN  [i \in 1..Len(refs) |-> <<refs[i][2], refs[i][3]>>]

\* The token: the feed it is scoped to and the salt its secret was drawn with.
generate_jwt_token_for_feed(feed_url, salt) == <<"jwt", feed_url, salt>>

-----------------------------------------------------------------------------
(* The version resolver (utils/nuget_helper.py) *)

V100 == <<"1.0.0">>
V110beta == <<"1.1.0", "-", "beta">>
V120 == <<"1.2.0">>
V200rc1 == <<"2.0.0", "-", "rc1">>

Versions == {V100, V110beta, V120, V200rc1}

\* "-" in v
HasDash(v) == \E i \in 1..Len(v) : v[i] = "-"

IsStable(v) == ~HasDash(v)

\* What one GET of a flat-container index can come to: status 200 with a
\* version list, status 200 with a body r.json() cannot parse, another status,
\* a timeout, or another exception of requests.get.
FailureKinds == {"non200", "timeout", "exception", "badjson"}

Ok(versions) == [kind |-> "ok", versions |-> versions]

Failure(kind) == [kind |-> kind, versions |-> <<>>]

\* The outcome of a block of code: it returns a value, it raises, or it
\* ends and control passes to the statement after it.
Return(v) == [k |-> "return", v |-> v]
Raise == [k |-> "raise", v |-> NoneVal]
Pass == [k |-> "pass", v |-> NoneVal]

StablePickFirst(versions) ==
    LET stable == SelectSeq(versions, IsStable)
    IN  IF stable # <<>> THEN stable[1]
        ELSE IF versions # <<>> THEN versions[1] ELSE NoneVal

\* stable = [v for v in versions if "-" not in v]
\* stable[-1] if stable else (versions[-1] if versions else None)
StablePick(versions) ==
    LET stable == SelectSeq(versions, IsStable)
    IN  IF stable # <<>> THEN Last(stable)
        ELSE IF versions # <<>> THEN Last(versions) ELSE NoneVal

\* The body of either try block: the GET, the status test, the pick.
Lookup(resp) ==
    IF resp.kind \in {"timeout", "exception"} THEN Raise
    ELSE IF resp.kind = "non200" THEN Pass
    ELSE IF resp.kind = "badjson" THEN Raise
    ELSE Return(StablePick(resp.versions))

ExceptNothing(outcome) == outcome

\* except Exception: pass
ExceptPass(outcome) == IF outcome.k = "raise" THEN Pass ELSE outcome

PrivateSkipped(feed_url, priv) == Pass

\* if feed_url: try: ... except Exception: pass
PrivateBranch(feed_url, priv) ==
    IF Truthy(feed_url) THEN ExceptPass(Lookup(priv)) ELSE Pass

\* try: ... except Exception: pass  (the public registry)
PublicBranch(pub) == ExceptPass(Lookup(pub))

\* The call as a whole: [raised, value, queried].  priv and pub are what the
\* private feed and the public registry answer if they are asked.
get_latest_nuget_version_for_feed(package_name, feed_url, token, priv, pub) ==
    LET p == PrivateBranch(feed_url, priv)
        q == PublicBranch(pub)
        first == IF Truthy(feed_url) THEN <<"private">> ELSE <<>>
    IN  IF p.k = "return"
          THEN [raised |-> FALSE, value |-> p.v, queried |-> first]
        ELSE IF p.k = "raise"
          THEN [raised |-> TRUE, value |-> NoneVal, queried |-> first]
        ELSE IF q.k = "return"
          THEN [raised |-> FALSE, value |-> q.v, queried |-> first \o <<"public">>]
        ELSE IF q.k = "raise"
          THEN [raised |-> TRUE, value |-> NoneVal, queried |-> first \o <<"public">>]
        ELSE [raised |-> FALSE, value |-> NoneVal, queried |-> first \o <<"public">>]

-----------------------------------------------------------------------------
(* The pipeline nodes (langgraph_app.py).  Each is a function of the state *)
(* dict, the project tree and the answers `a` of the outside world:        *)
(*   a.setorder  the order list(set(feeds)) came out in                    *)
(*   a.salt      feed -> the salt secrets.token_hex drew for its token     *)
(*   a.priv      package -> the private feed's response                    *)
(*   a.pub       package -> the public registry's response                 *)
(*   a.analysis  the completion service's answer to the analysis prompt    *)
(*   a.preview   the completion service's answer to the rewrite prompt     *)

DefaultAns ==
    [setorder |-> <<>>, salt |-> EmptyDict, priv |-> EmptyDict,
     pub |-> EmptyDict, analysis |-> "", preview |-> <<>>]

NotAsked == Failure("exception")

upload_node(s, tree) ==
    Put(s, "csproj_paths", collect_csproj_files(tree, s["uploaded_file_path"]))

detect_feeds_node_merging(s, tree, a) ==
    Put(s, "private_feeds",
        IF Truthy(Get(s, "user_feed_url", None))
          THEN <<s["user_feed_url"]>>
               \o (CHOOSE o \in detect_private_feeds(tree, s["uploaded_file_path"]) : TRUE)
          ELSE a.setorder)

detect_feeds_node(s, tree, a) ==
    Put(s, "private_feeds",
        IF Truthy(Get(s, "user_feed_url", None))
          THEN <<s["user_feed_url"]>>
          ELSE a.setorder)

\* The salt drawn for the token of feed f.
SaltFor(a, f) == Get(a.salt, f, 0)

generate_jwt_node_first_only(s, a) ==
    LET feeds == Get(s, "private_feeds", <<>>)
        kept == IF feeds = <<>> THEN {} ELSE {feeds[1]}
    IN  Put(s, "feed_tokens",
            [f \in kept |-> generate_jwt_token_for_feed(f, SaltFor(a, f))])

generate_jwt_node(s, a) ==
    LET feeds == Get(s, "private_feeds", <<>>)
    IN  Put(s, "feed_tokens",
            [f \in Range(feeds) |-> generate_jwt_token_for_feed(f, SaltFor(a, f))])

\* state.get("csproj_paths", []) or collect_csproj_files(root)
ScanCsprojs(s, tree) ==
    LET c == Get(s, "csproj_paths", <<>>)
    IN  IF c # <<>> THEN c ELSE collect_csproj_files(tree, s["uploaded_file_path"])

\* Every (name, version) the two loops of scan_packages_node visit, in order.
ScanRefs(s, tree) ==
    LET c == ScanCsprojs(s, tree)
    IN  Flatten([i \in 1..Len(c) |-> FindPackageReferences(read_text(tree, c[i]))])

\* (state.get("private_feeds") or [None])[0]
ScanFeed(s) ==
    LET pf == Get(s, "private_feeds", <<>>)
    IN  IF pf # <<>> THEN pf[1] ELSE None

\* state.get("feed_tokens", {}).get(feed)
ScanToken(s) == Get(Get(s, "feed_tokens", EmptyDict), ScanFeed(s), NoneVal)

ScanLookup(s, a, name) ==
    get_latest_nuget_version_for_feed(name, ScanFeed(s), ScanToken(s),
        Get(a.priv, name, NotAsked), Get(a.pub, name, NotAsked))

\* pkgs.setdefault(name, {"current": ver}); pkgs[name]["latest"] = latest
RECURSIVE ScanFold(_, _, _, _)
ScanFold(refs, pkgs, s, a) ==
    IF refs = <<>> THEN pkgs
    ELSE LET name == refs[1][1]
             ver == refs[1][2]
             cur == IF name \in DOMAIN pkgs THEN pkgs[name].current ELSE ver
             latest == ScanLookup(s, a, name).value
         IN  ScanFold(Tail(refs),
                      Put(pkgs, name, [current |-> cur, latest |-> latest]), s, a)

\* A lookup that raises ends the step with that exception.
ScanRaises(s, tree, a) ==
    \E r \in Range(ScanRefs(s, tree)) : ScanLookup(s, a, r[1]).raised

scan_packages_node_rescanning(s, tree, a) ==
    Put(Put(s, "package_report", ScanFold(ScanRefs(s, tree), EmptyDict, s, a)),
        "csproj_paths", ScanCsprojs(s, tree) \o ScanCsprojs(s, tree))

scan_packages_node(s, tree, a) ==
    Put(s, "package_report", ScanFold(ScanRefs(s, tree), EmptyDict, s, a))

analyze_ai_node(s, a) == Put(s, "analysis_report", a.analysis)

\* The text of a completion response is a sequence of tokens: the
\* literals "--FILE:", "--" and "--END FILE--", the tags of a before / after
\* section, a space, a line end, or a word holding none of these.
FileTag == <<"--FILE:">>
Dashes == <<"--">>
EndTag == <<"--END FILE--">>
EndHead == <<"--END FILE">>
BeforeOpen == <<"<before>">>
BeforeClose == <<"</before>">>
AfterOpen == <<"<after>">>
AfterClose == <<"</after>">>
Space == <<"sp">>
Newline == <<"nl">>
Word(x) == <<"txt", x>>

\* \s
IsSpace(t) == t \in {Space, Newline}

\* str.strip()
RECURSIVE Strip(_)
Strip(text) ==
    IF text = <<>> THEN <<>>
    ELSE IF IsSpace(text[1]) THEN Strip(Tail(text))
    ELSE IF IsSpace(text[Len(text)]) THEN Strip(SubSeq(text, 1, Len(text) - 1))
    ELSE text

\* "--\n" stands at j: two dashes, which also end "--END FILE--", and a
\* line end.
ClosesAt(text, j) ==
    /\ j + 1 <= Len(text)
    /\ text[j] \in {Dashes, EndTag}
    /\ text[j + 1] = Newline

\* The match of r"--FILE:\s*(.*?)\s*--\n(.*?)--END FILE--" (re.S) that
\* starts at i, as <<j, k>>: "--\n" at j is the first after i, "--END FILE--"
\* at k is the first after it; <<>> when there is none.
MatchAt(text, i) ==
    LET closes == {j \in (i + 1)..Len(text) : ClosesAt(text, j)}
    IN  IF text[i] # FileTag \/ closes = {} THEN <<>>
        ELSE LET j == CHOOSE x \in closes : \A y \in closes : x <= y
                 ends == {k \in (j + 2)..Len(text) : text[k] = EndTag}
             IN  IF ends = {} THEN <<>>
                 ELSE <<j, CHOOSE x \in ends : \A y \in ends : x <= y>>

\* The leftmost match in text, as <<i, j, k>>, or <<>>.
FirstMatch(text) ==
    LET starts == {i \in 1..Len(text) : MatchAt(text, i) # <<>>}
    IN  IF starts = {} THEN <<>>
        ELSE LET i == CHOOSE x \in starts : \A y \in starts : x <= y
             IN  <<i>> \o MatchAt(text, i)

\* m.group(1): what stands between "--FILE:" and the dashes of "--\n"
Group1(text, m) ==
    SubSeq(text, m[1] + 1, m[2] - 1)
    \o (IF text[m[2]] = EndTag THEN <<EndHead>> ELSE <<>>)

\* m.group(2): what stands between "--\n" and "--END FILE--"
Group2(text, m) == SubSeq(text, m[2] + 2, m[3] - 1)

RECURSIVE ParseBlocksKeepFirst(_, _)
ParseBlocksKeepFirst(preview, updates) ==
    LET m == FirstMatch(preview)
    IN  IF m = <<>> THEN updates
        ELSE LET rel == Strip(Group1(preview, m))
             IN  ParseBlocksKeepFirst(SubSeq(preview, m[3] + 1, Len(preview)),
                     IF rel \in DOMAIN updates THEN updates
                     ELSE Put(updates, rel, Strip(Group2(preview, m))))

\* for m in re.finditer(...): csproj_updates[m.group(1).strip()] =
\* m.group(2).strip(); the search goes on after the end of each match.
RECURSIVE ParseBlocks(_, _)
ParseBlocks(preview, updates) ==
    LET m == FirstMatch(preview)
    IN  IF m = <<>> THEN updates
        ELSE ParseBlocks(SubSeq(preview, m[3] + 1, Len(preview)),
                         Put(updates, Strip(Group1(preview, m)),
                             Strip(Group2(preview, m))))

upgrade_ai_node(s, a) ==
    Put(Put(s, "upgrade_preview", a.preview),
        "csproj_updates", ParseBlocks(a.preview, EmptyDict))

final_node(s) == s

-----------------------------------------------------------------------------
(* The graph and the orchestrator run_graph_invoke (langgraph_app.py) *)

NodeNames ==
    {"upload", "detect_feeds", "gen_jwt", "scan_pkgs", "analyze_ai",
     "upgrade_ai", "final"}

\* graph.set_entry_point("upload")
EntryPoint == "upload"

EdgesSkippingJwt ==
    [n \in {"upload", "detect_feeds", "scan_pkgs", "analyze_ai", "upgrade_ai"} |->
        CASE n = "upload" -> "detect_feeds"
          [] n = "detect_feeds" -> "scan_pkgs"
          [] n = "scan_pkgs" -> "analyze_ai"
          [] n = "analyze_ai" -> "upgrade_ai"
          [] n = "upgrade_ai" -> "final"]

\* graph.add_edge(a, b), six times; "final" has no outgoing edge
Edges ==
    [n \in NodeNames \ {"final"} |->
        CASE n = "upload" -> "detect_feeds"
          [] n = "detect_feeds" -> "gen_jwt"
          [] n = "gen_jwt" -> "scan_pkgs"
          [] n = "scan_pkgs" -> "analyze_ai"
          [] n = "analyze_ai" -> "upgrade_ai"
          [] n = "upgrade_ai" -> "final"]

\* The node the graph executor runs after n: the target of n's edge.
GraphNext(n) == IF n \in DOMAIN Edges THEN Edges[n] ELSE "END"

FallbackOrderSwapped ==
    <<"upload", "gen_jwt", "detect_feeds", "scan_pkgs", "analyze_ai",
      "upgrade_ai", "final">>

\* The seven calls of the except branch, top to bottom.
FallbackOrder ==
    <<"upload", "detect_feeds", "gen_jwt", "scan_pkgs", "analyze_ai",
      "upgrade_ai", "final">>

\* The call the except branch makes after the call of n.
FallbackNext(n) ==
    LET i == CHOOSE k \in 1..Len(FallbackOrder) : FallbackOrder[k] = n
    IN  IF i < Len(FallbackOrder) THEN FallbackOrder[i + 1] ELSE "END"

\* graph.add_node(name, fn): the function registered under each name, which
\* is also the function the except branch calls at that place.
RunNode(n, s, tree, a) ==
    CASE n = "upload" -> upload_node(s, tree)
      [] n = "detect_feeds" -> detect_feeds_node(s, tree, a)
      [] n = "gen_jwt" -> generate_jwt_node(s, a)
      [] n = "scan_pkgs" -> scan_packages_node(s, tree, a)
      [] n = "analyze_ai" -> analyze_ai_node(s, a)
      [] n = "upgrade_ai" -> upgrade_ai_node(s, a)
      [] n = "final" -> final_node(s)

\* What the registries answer in the pipeline runs.
MainResponses == {Ok(<<V100, V110beta>>), Failure("timeout")}

Analyses == {"report-1", "report-2"}

\* A block as the rewrite prompt asks for it.
Block(path, text) ==
    <<FileTag, Space, Word(path), Space, Dashes, Newline,
      Word(text), Newline, EndTag>>

Previews ==
    {<<Word("no"), Space, Word("blocks")>>,
     <<Word("intro"), Newline>> \o Block("app/App.csproj", "X")}

\* The answers the outside world may give to node n run on state s, added
\* to the answers a it gave to the earlier nodes of the attempt.  A registry
\* answers for the packages it is asked about and no others.
AnswersFor(n, s, tree, a) ==
    CASE n = "detect_feeds" ->
           IF Truthy(Get(s, "user_feed_url", None)) THEN {a}
           ELSE {[a EXCEPT !.setorder = o] :
                    o \in detect_private_feeds(tree, s["uploaded_file_path"])}
      [] n = "gen_jwt" ->
           {[a EXCEPT !.salt = f] :
               f \in [Range(Get(s, "private_feeds", <<>>)) -> 1..MaxSalt]}
      [] n = "scan_pkgs" ->
           LET names == {r[1] : r \in Range(ScanRefs(s, tree))}
               asked == IF Truthy(ScanFeed(s)) THEN names ELSE {}
               left(p) == {x \in names :
                             PrivateBranch(ScanFeed(s), Get(p, x, NotAsked)).k # "return"}
           IN  UNION {{[a EXCEPT !.priv = p, !.pub = q] :
                          q \in [left(p) -> MainResponses]} :
                      p \in [asked -> MainResponses]}
      [] n = "analyze_ai" -> {[a EXCEPT !.analysis = x] : x \in Analyses}
      [] n = "upgrade_ai" -> {[a EXCEPT !.preview = x] : x \in Previews}
      [] OTHER -> {a}

\* The nodes that do input or output that can fail: reading the feed
\* configuration, reading the project files, the two completion calls.
MayRaise(n, s, tree) ==
    CASE n = "detect_feeds" ->
           /\ ~Truthy(Get(s, "user_feed_url", None))
           /\ \E i \in 1..Len(tree) : IsNugetConfig(tree[i])
      [] n = "scan_pkgs" -> ScanCsprojs(s, tree) # <<>>
      [] n = "analyze_ai" -> TRUE
      [] n = "upgrade_ai" -> TRUE
      [] OTHER -> FALSE

-----------------------------------------------------------------------------
(* The inputs of the pipeline runs *)

File(rel, kind, text) == [rel |-> rel, kind |-> kind, text |-> text]

TreePlain == <<File("readme.txt", "other", <<<<"txt", "hello">>>>)>>

TreeTwoFeeds ==
    <<File("nuget.config", "nuget.config",
           <<<<"add", "https://feed.a">>, <<"add", "https://feed.b">>,
             <<"add", "https://feed.a">>>>),
      File("app/App.csproj", "csproj",
           <<<<"ref", "Newtonsoft.Json", "12.0.1">>,
             <<"ref", "Serilog", "2.0.0">>>>)>>

TreeTwoProjects ==
    <<File("app/App.csproj", "csproj", <<<<"ref", "Serilog", "2.0.0">>>>),
      File("NuGet.Config", "nuget.config", <<<<"add", "https://feed.a">>>>),
      File("lib/Lib.csproj", "csproj", <<<<"ref", "Serilog", "2.1.0">>>>)>>

Trees == {TreePlain, TreeTwoFeeds, TreeTwoProjects}

UserFeed == "https://user.feed"

\* app.py builds {"uploaded_file_path", "target_version"} and adds
\* "user_feed_url" when the text input is not empty; run_graph_invoke itself
\* also accepts an empty one.
InitialStates ==
    LET base == [uploaded_file_path |-> Root, target_version |-> "net8.0"]
    IN  {base, Put(base, "user_feed_url", ""), Put(base, "user_feed_url", UserFeed)}

Off == [phase |-> "off"]

Init ==
    /\ fs \in Trees
    /\ initial_state \in InitialStates
    /\ mode = "called"
    /\ node = "END"
    /\ state = EmptyDict
    /\ ans = DefaultAns
    /\ result = EmptyDict
    /\ trace = <<>>
    /\ attemptStart = 0
    /\ raisedIn = {}
    /\ rv = Off
    /\ zp = Off
    /\ pv = Off

-----------------------------------------------------------------------------
(* run_graph_invoke, step by step *)

\* Node `node` runs to its end on `state` and `next` is to run after it.
NodeRuns(next) ==
    \E a \in AnswersFor(node, state, fs, ans) :
        /\ ~(node = "scan_pkgs" /\ ScanRaises(state, fs, a))
        /\ state' = RunNode(node, state, fs, a)
        /\ ans' = a
        /\ trace' = Append(trace, node)
        /\ node' = next

\* Node `node` can raise on `state`: its input or output fails, or a version
\* lookup of the scan step raises.
NodeCanRaise ==
    IF MayRaise(node, state, fs) THEN TRUE
    ELSE /\ node = "scan_pkgs"
         /\ \E a \in AnswersFor(node, state, fs, ans) : ScanRaises(state, fs, a)

\* state = initial_state.copy(), and the first call of the except branch
EnterFallback ==
    /\ mode' = "fallback"
    /\ state' = initial_state
    /\ ans' = DefaultAns
    /\ node' = FallbackOrder[1]
    /\ attemptStart' = Len(trace')

\* try: result = graph_obj.invoke(initial_state): the executor starts
InvokeBegins ==
    /\ mode = "called"
    /\ mode' = "graph"
    /\ state' = initial_state
    /\ node' = EntryPoint
    /\ UNCHANGED <<fs, initial_state, ans, result, trace, attemptStart, raisedIn, rv, zp, pv>>

\* graph_obj.invoke raises before any node ran (the object has no invoke, or
\* the executor rejects the graph): except Exception
InvokeUnavailable ==
    /\ mode = "called"
    /\ trace' = trace
    /\ EnterFallback
    /\ UNCHANGED <<fs, initial_state, result, raisedIn, rv, zp, pv>>

\* the executor runs the next node of the graph
GraphStep ==
    /\ mode = "graph"
    /\ node # "END"
    /\ NodeRuns(GraphNext(node))
    /\ UNCHANGED <<fs, initial_state, mode, result, attemptStart, raisedIn, rv, zp, pv>>

\* a node raises inside graph_obj.invoke: except Exception catches it
GraphStepRaises ==
    /\ mode = "graph"
    /\ node # "END"
    /\ NodeCanRaise
    /\ trace' = Append(trace, node)
    /\ raisedIn' = raisedIn \cup {node}
    /\ EnterFallback
    /\ UNCHANGED <<fs, initial_state, result, rv, zp, pv>>

\* return result
GraphReturns ==
    /\ mode = "graph"
    /\ node = "END"
    /\ result' = state
    /\ mode' = "returned"
    /\ UNCHANGED <<fs, initial_state, node, state, ans, trace, attemptStart, raisedIn, rv, zp, pv>>

\* state = <node>(state), one line of the except branch
FallbackStep ==
    /\ mode = "fallback"
    /\ node # "END"
    /\ NodeRuns(FallbackNext(node))
    /\ UNCHANGED <<fs, initial_state, mode, result, attemptStart, raisedIn, rv, zp, pv>>

\* a node raises in the except branch: nothing catches it
FallbackStepRaises ==
    /\ mode = "fallback"
    /\ node # "END"
    /\ NodeCanRaise
    /\ trace' = Append(trace, node)
    /\ raisedIn' = raisedIn \cup {node}
    /\ mode' = "raised"
    /\ UNCHANGED <<fs, initial_state, node, state, ans, result, attemptStart, rv, zp, pv>>

\* return state
FallbackReturns ==
    /\ mode = "fallback"
    /\ node = "END"
    /\ result' = state
    /\ mode' = "returned"
    /\ UNCHANGED <<fs, initial_state, node, state, ans, trace, attemptStart, raisedIn, rv, zp, pv>>

Next ==
    \/ InvokeBegins
    \/ InvokeUnavailable
    \/ GraphStep
    \/ GraphStepRaises
    \/ GraphReturns
    \/ FallbackStep
    \/ FallbackStepRaises
    \/ FallbackReturns

Spec == Init /\ [][Next]_vars

-----------------------------------------------------------------------------
(* The two strategies as functions of the initial state and the answers *)

\* graph_obj.invoke(initial_state): from node n on, follow the edges.
RECURSIVE RunGraph(_, _, _, _)
RunGraph(n, s, tree, a) ==
    IF n = "END" THEN s
    ELSE RunGraph(GraphNext(n), RunNode(n, s, tree, a), tree, a)

\* The except branch: the calls from the i-th on, each on the last one's result.
RECURSIVE RunFallback(_, _, _, _)
RunFallback(i, s, tree, a) ==
    IF i > Len(FallbackOrder) THEN s
    ELSE RunFallback(i + 1, RunNode(FallbackOrder[i], s, tree, a), tree, a)

-----------------------------------------------------------------------------
(* Properties of the orchestrator *)

StepOrder ==
    <<"upload", "detect_feeds", "gen_jwt", "scan_pkgs", "analyze_ai",
      "upgrade_ai", "final">>

IsPrefix(p, q) == Len(p) <= Len(q) /\ p = SubSeq(q, 1, Len(p))

ReturningAttempt == SubSeq(trace, attemptStart + 1, Len(trace))

AbortedAttempt == SubSeq(trace, 1, attemptStart)

\* C1: a call of run_graph_invoke that returns a state has run, in the
\* attempt that produced it (the graph executor's or the sequential
\* fallback's), exactly the seven steps upload, detect_feeds, gen_jwt,
\* scan_pkgs, analyze_ai, upgrade_ai, final in this order; and whatever an
\* attempt ran before it stopped is an initial part of that order.
C1_FixedOrder ==
    /\ IsPrefix(ReturningAttempt, StepOrder)
    /\ IsPrefix(AbortedAttempt, StepOrder)
    /\ mode = "returned" => ReturningAttempt = StepOrder

C1_Witness ==
    /\ mode = "returned"
    /\ attemptStart = 4
    /\ "scan_pkgs" \in raisedIn
    /\ Len(trace) = 11

\* C2: the state a call returns is the state the graph executor yields from
\* the initial state under the answers given, and also the state the seven
\* sequential calls yield from it under the same answers: the two strategies
\* agree on every initial state.
C2_SameFinalState ==
    mode = "returned" =>
        /\ result = RunFallback(1, initial_state, fs, ans)
        /\ result = RunGraph(EntryPoint, initial_state, fs, ans)

C2_Witness ==
    /\ mode = "returned"
    /\ attemptStart = 0
    /\ Len(trace) = 7
    /\ DOMAIN result["feed_tokens"] # {}
    /\ DOMAIN result["csproj_updates"] # {}

\* C3 (as claimed): once a step has raised in a call, the call does not
\* return a state to the caller.
C3_RaisePropagates == raisedIn # {} => mode # "returned"

OutputFields ==
    {"csproj_paths", "private_feeds", "feed_tokens", "package_report",
     "analysis_report", "upgrade_preview", "csproj_updates"}

InputFields == {"uploaded_file_path", "target_version", "user_feed_url"}

\* The step the data model names as the writer of each field.
WriterOf(f) ==
    CASE f = "csproj_paths" -> "upload"
      [] f = "private_feeds" -> "detect_feeds"
      [] f = "feed_tokens" -> "gen_jwt"
      [] f = "package_report" -> "scan_pkgs"
      [] f = "analysis_report" -> "analyze_ai"
      [] f = "upgrade_preview" -> "upgrade_ai"
      [] f = "csproj_updates" -> "upgrade_ai"
      [] OTHER -> "nobody"

FieldSame(f) ==
    /\ f \in DOMAIN state <=> f \in DOMAIN state'
    /\ f \in DOMAIN state => state'[f] = state[f]

StepDone(n) ==
    /\ mode \in {"graph", "fallback"}
    /\ mode' = mode
    /\ trace' = Append(trace, n)

\* C4: a step changes no field but its own: every field of the state other
\* than the one (two, for upgrade_ai) it is the writer of, the input fields
\* among them, is the same after the step as before it; the fields a step
\* adds are its own; and a returned state holds all seven output fields.
C4_SingleWriter ==
    [][/\ \A n \in NodeNames :
            StepDone(n) =>
                /\ \A f \in (DOMAIN state \cup DOMAIN state') :
                       WriterOf(f) # n => FieldSame(f)
                /\ \A f \in OutputFields :
                       WriterOf(f) = n => f \in DOMAIN state'
                /\ DOMAIN state' \subseteq InputFields \cup OutputFields
       /\ mode' = "returned" => OutputFields \subseteq DOMAIN result'
      ]_vars

C4_Witness ==
    /\ mode = "fallback"
    /\ node = "analyze_ai"
    /\ "user_feed_url" \in DOMAIN state
    /\ state["user_feed_url"] = UserFeed
    /\ Len(state["csproj_paths"]) = 2
    /\ "Serilog" \in DOMAIN state["package_report"]

\* C5: once generate_jwt_node has run, the keys of feed_tokens are exactly
\* the endpoints of private_feeds, in the working state and in the returned
\* state, for discovered and for user-supplied feeds.
C5_TokensMatchFeeds ==
    /\ "feed_tokens" \in DOMAIN state =>
           DOMAIN state["feed_tokens"] = Range(state["private_feeds"])
    /\ "feed_tokens" \in DOMAIN result =>
           DOMAIN result["feed_tokens"] = Range(result["private_feeds"])

C5_Witness ==
    /\ mode = "returned"
    /\ Cardinality(DOMAIN result["feed_tokens"]) = 2

\* C6: once detect_feeds_node has run, private_feeds is <<user_feed_url>>
\* when user_feed_url is present and not empty, whatever the tree's feed
\* configuration holds; otherwise it lists the endpoints configured in the
\* tree, each once.
C6_UserOverride ==
    "private_feeds" \in DOMAIN state =>
        LET pf == state["private_feeds"]
        IN  IF "user_feed_url" \in DOMAIN state /\ state["user_feed_url"] # ""
              THEN pf = <<state["user_feed_url"]>>
              ELSE /\ Range(pf) = Range(ConfiguredFeeds(fs))
                   /\ Cardinality(Range(pf)) = Len(pf)

C6_Witness ==
    /\ fs = TreeTwoFeeds
    /\ "private_feeds" \in DOMAIN state
    /\ state["private_feeds"] = <<UserFeed>>

\* The number of times node n was run in this call of run_graph_invoke.
TimesRun(n) == Cardinality({i \in 1..Len(trace) : trace[i] = n})

\* C13 (as claimed): within one call of run_graph_invoke no step is run
\* more than once; a step the graph executor has run is not run again by the
\* sequential fallback, so each completion call is made at most once.
C13_AtMostOnce == \A n \in NodeNames : TimesRun(n) <= 1

-----------------------------------------------------------------------------
(* Calls of the version resolver on their own: every response of the       *)
(* private feed against every response of the public registry.             *)

VersionLists == UNION {[1..n -> Versions] : n \in 0..MaxVersions}

Responses == {Ok(l) : l \in VersionLists} \cup {Failure(k) : k \in FailureKinds}

PrivateFeed == "https://feed.a"

NoOutcome == [raised |-> FALSE, value |-> NoneVal, queried |-> <<>>]

\* The arguments of a call and what the registries would answer.  A feed
\* that is None or "" is never asked and has no token; the pipeline passes a
\* private feed with the token it issued for it.
ResolveInput(f, p, q) ==
    [phase |-> "in", name |-> "Serilog", feed_url |-> f,
     token |-> IF Truthy(f) THEN generate_jwt_token_for_feed(f, 1) ELSE NoneVal,
     priv |-> IF Truthy(f) THEN p ELSE NotAsked,
     pub |-> q, out |-> NoOutcome, report |-> EmptyDict]

\* The state scan_packages_node finds when the feed and token of the call
\* are the pipeline's: the tree of two projects, both referring to Serilog.
ScanState(r) ==
    LET s0 == upload_node([uploaded_file_path |-> Root, target_version |-> "net8.0"],
                          TreeTwoProjects)
        s1 == Put(s0, "private_feeds",
                  IF r.feed_url = None THEN <<>> ELSE <<r.feed_url>>)
    IN  Put(s1, "feed_tokens",
            IF r.token = NoneVal THEN EmptyDict
            ELSE [f \in {r.feed_url} |-> r.token])

ScanAnswers(r) ==
    [DefaultAns EXCEPT !.priv = [n \in {r.name} |-> r.priv],
                       !.pub = [n \in {r.name} |-> r.pub]]

InitResolve ==
    /\ fs = TreeTwoProjects
    /\ initial_state = EmptyDict
    /\ mode = "off"
    /\ node = "END"
    /\ state = EmptyDict
    /\ ans = DefaultAns
    /\ result = EmptyDict
    /\ trace = <<>>
    /\ attemptStart = 0
    /\ raisedIn = {}
    /\ zp = Off
    /\ pv = Off
    /\ \E f \in {None, "", PrivateFeed}, p \in Responses, q \in Responses :
           rv = ResolveInput(f, p, q)

\* get_latest_nuget_version_for_feed(name, feed_url, token)
ResolveCall ==
    /\ rv.phase = "in"
    /\ rv' = [rv EXCEPT !.phase = "resolved",
                        !.out = get_latest_nuget_version_for_feed(
                                    rv.name, rv.feed_url, rv.token, rv.priv, rv.pub)]
    /\ UNCHANGED <<pipelineVars, zp, pv>>

\* scan_packages_node(state) with the registries answering as in rv
ScanCall ==
    /\ rv.phase = "in"
    /\ rv' = [rv EXCEPT !.phase = "scanned",
                        !.out = [NoOutcome EXCEPT
                                   !.raised = ScanRaises(ScanState(rv), fs, ScanAnswers(rv))],
                        !.report = scan_packages_node(ScanState(rv), fs,
                                       ScanAnswers(rv))["package_report"]]
    /\ UNCHANGED <<pipelineVars, zp, pv>>

NextResolve == ResolveCall \/ ScanCall

SpecResolve == InitResolve /\ [][NextResolve]_vars

-----------------------------------------------------------------------------
(* Properties of the version resolver *)

PrivateAsked == Truthy(rv.feed_url)

PrivateFailed == PrivateAsked /\ rv.priv.kind \in FailureKinds

PublicFailed == rv.pub.kind \in FailureKinds

\* C7: a call never raises; when the private feed's lookup fails (another
\* status than 200, a timeout, an exception) the public registry is asked
\* next, once, and the private feed is not asked again; when both fail the
\* result is None; and the scan step then reports the package with latest
\* None instead of raising.
C7_NeverRaises ==
    /\ rv.phase = "resolved" =>
          /\ ~rv.out.raised
          /\ PrivateFailed => rv.out.queried = <<"private", "public">>
          /\ (PrivateAsked => PrivateFailed) /\ PublicFailed =>
                 rv.out.value = NoneVal
    /\ rv.phase = "scanned" =>
          /\ ~rv.out.raised
          /\ rv.name \in DOMAIN rv.report
          /\ (PrivateAsked => PrivateFailed) /\ PublicFailed =>
                 rv.report[rv.name].latest = NoneVal

C7_Witness ==
    /\ rv.phase = "scanned"
    /\ rv.priv.kind = "timeout"
    /\ rv.pub.kind = "badjson"
    /\ rv.report[rv.name].latest = NoneVal

\* The pick the stable-preference rule describes: the element at the
\* greatest index that holds no "-", or the last element when every element
\* holds one; None for the empty list.
IsPreferred(l, v) ==
    IF l = <<>> THEN v = NoneVal
    ELSE LET stableAt == {i \in 1..Len(l) : \A k \in 1..Len(l[i]) : l[i][k] # "-"}
         IN  IF stableAt = {} THEN v = l[Len(l)]
             ELSE \E i \in stableAt : (\A j \in stableAt : j <= i) /\ v = l[i]

PublicAnswer(v) ==
    IF rv.pub.kind = "ok" THEN IsPreferred(rv.pub.versions, v) ELSE v = NoneVal

\* C8 (as claimed): every call asks the public registry, and the result of
\* the call is the public registry's answer.
C8_PublicAlways ==
    rv.phase = "resolved" =>
        /\ "public" \in Range(rv.out.queried)
        /\ PublicAnswer(rv.out.value)

\* C8 (amended): a call whose private-feed lookup answers 200 returns the
\* pick from the private feed's list and does not ask the public registry;
\* every other call (no feed, or a failed private lookup) asks the public
\* registry last and returns the pick from its list, None if it fails too.
C8_PublicUnlessPrivateReturns ==
    rv.phase = "resolved" =>
        IF PrivateAsked /\ rv.priv.kind = "ok"
          THEN /\ rv.out.queried = <<"private">>
               /\ IsPreferred(rv.priv.versions, rv.out.value)
          ELSE /\ Last(rv.out.queried) = "public"
               /\ PublicAnswer(rv.out.value)

C8_Witness ==
    /\ rv.phase = "resolved"
    /\ PrivateAsked
    /\ rv.priv = Ok(<<V100>>)
    /\ rv.pub = Ok(<<V120>>)
    /\ rv.out.value = V100

\* The list the result of the call is picked from, when a lookup succeeded.
AnsweringList ==
    IF PrivateAsked /\ rv.priv.kind = "ok" THEN rv.priv.versions ELSE rv.pub.versions

LookupSucceeded ==
    (PrivateAsked /\ rv.priv.kind = "ok") \/ rv.pub.kind = "ok"

\* C9: the result of a successful lookup is the last element of the
\* returned list, in the list's own order, that holds no "-"; when no
\* element is stable it is the last element of the list (None for a list
\* with no element).
C9_StablePreference ==
    rv.phase = "resolved" /\ LookupSucceeded =>
        IsPreferred(AnsweringList, rv.out.value)

C9_Witness ==
    /\ rv.phase = "resolved"
    /\ ~PrivateAsked
    /\ rv.pub = Ok(<<V120, V110beta, V100>>)
    /\ rv.out.value = V100

-----------------------------------------------------------------------------
(* The repackager (utils/file_utils.py).  The text of a file is a sequence *)
(* of tokens: the opening and the closing tag of a TargetFramework         *)
(* element, a line end "\n" or "\r\n", or other text without a line end.   *)

TfOpen == <<"tfopen">>
TfClose == <<"tfclose">>
LF == <<"nl">>
CRLF == <<"crlf">>
Text(x) == <<"txt", x>>

\* open(src).read(): text mode with universal newlines, "\r\n" reads as "\n"
TextRead(bytes) ==
    [i \in 1..Len(bytes) |-> IF bytes[i] = CRLF THEN LF ELSE bytes[i]]

\* The end of the leftmost-shortest match of
\* <TargetFramework>.*?</TargetFramework> that starts at text[1], or 0:
\* "." matches anything but a line end.
MatchEnd(text) ==
    LET closes == {j \in 2..Len(text) :
                     /\ text[j] = TfClose
                     /\ \A k \in 2..(j - 1) : text[k] \notin {LF, CRLF}}
    IN  IF text = <<>> \/ text[1] # TfOpen \/ closes = {} THEN 0
        ELSE CHOOSE j \in closes : \A k \in closes : j <= k

\* re.sub(r'<TargetFramework>.*?</TargetFramework>',
\*        f'<TargetFramework>{target}</TargetFramework>', orig)
RECURSIVE ReSub(_, _)
ReSub(text, target) ==
    IF text = <<>> THEN <<>>
    ELSE LET j == MatchEnd(text)
         IN  IF j = 0 THEN <<text[1]>> \o ReSub(Tail(text), target)
             ELSE <<TfOpen, Text(target), TfClose>>
                  \o ReSub(SubSeq(text, j + 1, Len(text)), target)

\* What the loop body writes for file f: z.writestr(rel, updates[rel]),
\* z.writestr(rel, upd) or z.write(src, rel).
ZipEntry(f, root, updates, target) ==
    LET rel == RelPath(Join(root, f.rel), root)
    IN  [name |-> rel,
         data |-> IF rel \in DOMAIN updates THEN updates[rel]
                  ELSE IF IsCsproj(f) THEN ReSub(TextRead(f.text), target)
                  ELSE f.text]

\* The archive create_upgraded_zip leaves at zpath: one entry per file of
\* the tree, in os.walk order.
create_upgraded_zip(tree, root, updates, target) ==
    [i \in 1..Len(tree) |-> ZipEntry(tree[i], root, updates, target)]

TextTokens == {TfOpen, TfClose, LF, CRLF, Text("net6.0")}

CsprojTexts == UNION {[1..n -> TextTokens] : n \in 0..MaxText}

\* app.py: the selectbox's target versions
TargetVersions == {"net6.0", "net7.0", "net8.0", "net9.0-preview"}

ZipUpdates ==
    {EmptyDict,
     [k \in {"app/App.csproj"} |-> <<Text("X")>>],
     [k \in {"docs/readme.txt"} |-> <<Text("X")>>],
     [k \in {"other/Gone.csproj"} |-> <<Text("X")>>]}

ZipTree(text) ==
    <<File("app/App.csproj", "csproj", text),
      File("docs/readme.txt", "other", <<Text("hello"), CRLF>>)>>

InitZip ==
    /\ fs = TreePlain
    /\ initial_state = EmptyDict
    /\ mode = "off"
    /\ node = "END"
    /\ state = EmptyDict
    /\ ans = DefaultAns
    /\ result = EmptyDict
    /\ trace = <<>>
    /\ attemptStart = 0
    /\ raisedIn = {}
    /\ rv = Off
    /\ pv = Off
    /\ \E text \in CsprojTexts, u \in ZipUpdates, t \in TargetVersions :
           zp = [phase |-> "in", tree |-> ZipTree(text), updates |-> u,
                 target |-> t, archive |-> <<>>]

\* The download handler: create_upgraded_zip(project_root, csproj_updates,
\* target_version)
ZipCall ==
    /\ zp.phase = "in"
    /\ zp' = [zp EXCEPT !.phase = "zipped",
                        !.archive = create_upgraded_zip(zp.tree, Root, zp.updates,
                                                        zp.target)]
    /\ UNCHANGED <<pipelineVars, rv, pv>>

NextZip == ZipCall

SpecZip == InitZip /\ [][NextZip]_vars

-----------------------------------------------------------------------------
(* Properties of the repackager *)

\* The text with the value of every declared TargetFramework element (what
\* stands between an opening tag and the next closing tag) replaced by
\* target, and every other token, the line ends among them, as it was.
RECURSIVE DeclaredReplaced(_, _)
DeclaredReplaced(text, target) ==
    IF text = <<>> THEN <<>>
    ELSE LET closes == {j \in 2..Len(text) : text[j] = TfClose}
         IN  IF text[1] # TfOpen \/ closes = {}
               THEN <<text[1]>> \o DeclaredReplaced(Tail(text), target)
             ELSE LET j == CHOOSE x \in closes : \A y \in closes : x <= y
                  IN  <<TfOpen, Text(target), TfClose>>
                      \o DeclaredReplaced(SubSeq(text, j + 1, Len(text)), target)

\* C10 (as claimed): the archive holds one entry per file of the tree,
\* under its relative path: the replacement content for a path that is a key
\* of file_updates; else, for a .csproj, its content with the declared
\* target-framework value replaced by target_version and otherwise
\* unchanged; else the file's content unchanged.
C10_ThreeWayRule ==
    zp.phase = "zipped" =>
        /\ Len(zp.archive) = Len(zp.tree)
        /\ \A i \in 1..Len(zp.tree) :
              LET f == zp.tree[i]
              IN  /\ zp.archive[i].name = f.rel
                  /\ zp.archive[i].data =
                        IF f.rel \in DOMAIN zp.updates THEN zp.updates[f.rel]
                        ELSE IF IsCsproj(f) THEN DeclaredReplaced(f.text, zp.target)
                        ELSE f.text

(***************************************************************************)
(* Calls of the rewrite step's parser on their own: the completion         *)
(* response is any sequence of at most MaxPieces pieces.                   *)
(***************************************************************************)
MaxPieces == 3

PathA == "src/A.csproj"
PathB == "src/B.csproj"

\* "--FILE: <path> --\n", and the same with the closing dashes left out
StartOf(path) == <<FileTag, Space, Word(path), Space, Dashes, Newline>>
BadStartOf(path) == <<FileTag, Space, Word(path), Newline>>
EndPiece == <<EndTag, Newline>>
Prose == <<Word("note"), Space, Dashes, Space>>

ParsePieces ==
    {Block(PathA, "X"), Block(PathA, "Y"), Block(PathB, "X"),
     StartOf(PathA), BadStartOf(PathA), EndPiece, Prose}

\* The state upgrade_ai_node is called on, and the completion's answer.
ParseState == [target_version |-> "net8.0", ai_analysis |-> <<>>]
ParseAnswer(preview) == [DefaultAns EXCEPT !.preview = preview]

InitParse ==
    /\ fs = TreePlain
    /\ initial_state = EmptyDict
    /\ mode = "off"
    /\ node = "END"
    /\ state = EmptyDict
    /\ ans = DefaultAns
    /\ result = EmptyDict
    /\ trace = <<>>
    /\ attemptStart = 0
    /\ raisedIn = {}
    /\ rv = Off
    /\ zp = Off
    /\ \E n \in 0..MaxPieces : \E pieces \in [1..n -> ParsePieces] :
           pv = [phase |-> "in", preview |-> Flatten(pieces), out |-> EmptyDict]

\* upgrade_ai_node on a completion response
ParseCall ==
    /\ pv.phase = "in"
    /\ pv' = [pv EXCEPT !.phase = "parsed",
                        !.out = upgrade_ai_node(ParseState,
                                    ParseAnswer(pv.preview))["csproj_updates"]]
    /\ UNCHANGED <<pipelineVars, rv, zp>>

NextParse == ParseCall

SpecParse == InitParse /\ [][NextParse]_vars

\* A recognized block of text t, as <<i, j, k>>: "--FILE:" stands at i, the
\* first "--\n" after it at j, and the first "--END FILE--" after that at k.
IsBlock(t, i, j, k) ==
    /\ t[i] = FileTag
    /\ i < j /\ ClosesAt(t, j)
    /\ \A x \in (i + 1)..(j - 1) : ~ClosesAt(t, x)
    /\ j + 1 < k /\ k <= Len(t) /\ t[k] = EndTag
    /\ \A x \in (j + 2)..(k - 1) : t[x] # EndTag

BlocksAt(t, i) ==
    {<<i, j, k>> : j \in {x \in (i + 1)..Len(t) : ClosesAt(t, x)},
                   k \in {x \in (i + 3)..Len(t) : t[x] = EndTag}}

\* The recognized blocks that start at p or later, none inside another.
RECURSIVE BlocksFrom(_, _)
BlocksFrom(t, p) ==
    LET c == UNION {{b \in BlocksAt(t, i) : IsBlock(t, b[1], b[2], b[3])} :
                    i \in {x \in p..Len(t) : t[x] = FileTag}}
    IN  IF c = {} THEN {}
        ELSE LET b == CHOOSE x \in c : \A y \in c : x[1] <= y[1]
             IN  {b} \cup BlocksFrom(t, b[3] + 1)

RecognizedBlocks(t) == BlocksFrom(t, 1)

\* The path and the content of a recognized block, surrounding white space
\* left out.
PathOf(t, b) ==
    Strip(SubSeq(t, b[1] + 1, b[2] - 1)
          \o (IF t[b[2]] = EndTag THEN <<EndHead>> ELSE <<>>))
ContentOf(t, b) == Strip(SubSeq(t, b[2] + 2, b[3] - 1))

\* C12 (as claimed): file_updates has exactly one entry per recognized
\* block, mapping the block's path to the content between its markers, and a
\* response with no recognized block gives the empty mapping.
C12_OneEntryPerBlock ==
    pv.phase = "parsed" =>
        LET blocks == RecognizedBlocks(pv.preview)
        IN  /\ Cardinality(DOMAIN pv.out) = Cardinality(blocks)
            /\ \A b \in blocks :
                   /\ PathOf(pv.preview, b) \in DOMAIN pv.out
                   /\ pv.out[PathOf(pv.preview, b)] = ContentOf(pv.preview, b)

\* C12 (amended): file_updates has exactly one entry per distinct path of
\* the recognized blocks, mapping the path to the stripped content of the
\* last recognized block with that path; text outside recognized blocks adds
\* nothing, and a response with no recognized block gives the empty mapping.
C12_OneEntryPerPath ==
    pv.phase = "parsed" =>
        LET blocks == RecognizedBlocks(pv.preview)
        IN  /\ DOMAIN pv.out = {PathOf(pv.preview, b) : b \in blocks}
            /\ \A b \in blocks :
                   (\A c \in blocks :
                        PathOf(pv.preview, c) = PathOf(pv.preview, b)
                            => c[1] <= b[1])
                   => pv.out[PathOf(pv.preview, b)] = ContentOf(pv.preview, b)
            /\ blocks = {} => pv.out = EmptyDict

\* Two recognized blocks name the same path with different contents, and
\* the one entry for the path holds the content of the later block.
C12_Witness ==
    /\ pv.phase = "parsed"
    /\ \E b, c \in RecognizedBlocks(pv.preview) :
           /\ b[1] < c[1]
           /\ PathOf(pv.preview, b) = PathOf(pv.preview, c)
           /\ ContentOf(pv.preview, b) # ContentOf(pv.preview, c)
           /\ pv.out = Put(EmptyDict, PathOf(pv.preview, c),
                           ContentOf(pv.preview, c))

(***************************************************************************)
(* The Upgrade Preview expander: extract_diffs_from_markdown on the        *)
(* result's upgrade_preview, as app.py imports it from utils.file_utils    *)
(* and as n.py defines it for its own expander.                            *)
(***************************************************************************)
\* utils/file_utils.py: def extract_diffs_from_markdown(t): return []
extract_diffs_from_markdown(t) == <<>>

\* re.search(open + r"(.*?)" + close, xml, re.S): the leftmost open tag that
\* has a close tag after it, up to the first such close tag.
Search(open, close, xml) ==
    LET opens == {a \in 1..Len(xml) :
                     /\ xml[a] = open
                     /\ \E b \in (a + 1)..Len(xml) : xml[b] = close}
    IN  IF opens = {} THEN [found |-> FALSE, group1 |-> <<>>]
        ELSE LET a == CHOOSE x \in opens : \A y \in opens : x <= y
                 b == CHOOSE x \in (a + 1)..Len(xml) :
                          /\ xml[x] = close
                          /\ \A y \in (a + 1)..(x - 1) : xml[y] # close
             IN  [found |-> TRUE, group1 |-> SubSeq(xml, a + 1, b - 1)]

\* n.py: extract_diffs_from_markdown
RECURSIVE n_extract_diffs_from_markdown(_)
n_extract_diffs_from_markdown(markdown_text) ==
    LET match == FirstMatch(markdown_text)
    IN  IF match = <<>> THEN <<>>
        ELSE LET fname == Strip(Group1(markdown_text, match))
                 xml == Strip(Group2(markdown_text, match))
                 before == Search(BeforeOpen, BeforeClose, xml)
                 after == Search(AfterOpen, AfterClose, xml)
             IN  (IF before.found /\ after.found
                  THEN <<<<fname, Strip(before.group1), Strip(after.group1)>>>>
                  ELSE <<>>)
                 \o n_extract_diffs_from_markdown(
                        SubSeq(markdown_text, match[3] + 1, Len(markdown_text)))

BeforeSec == <<BeforeOpen, Word("OLD"), BeforeClose>>
AfterSec == <<AfterOpen, Newline, Word("NEW"), Newline, AfterClose>>
DiffBlock(path, sections) == StartOf(path) \o sections \o <<Newline>> \o EndPiece

DiffPieces ==
    {DiffBlock(PathA, BeforeSec \o <<Newline>> \o AfterSec),
     DiffBlock(PathB, AfterSec \o BeforeSec),
     DiffBlock(PathA, BeforeSec), DiffBlock(PathB, AfterSec),
     StartOf(PathA), BeforeSec, EndPiece}

InitDiff ==
    /\ fs = TreePlain
    /\ initial_state = EmptyDict
    /\ mode = "off"
    /\ node = "END"
    /\ state = EmptyDict
    /\ ans = DefaultAns
    /\ result = EmptyDict
    /\ trace = <<>>
    /\ attemptStart = 0
    /\ raisedIn = {}
    /\ rv = Off
    /\ zp = Off
    /\ \/ pv = [phase |-> "in", result |-> EmptyDict, out |-> <<>>]
       \/ \E n \in 0..MaxPieces : \E pieces \in [1..n -> DiffPieces] :
              pv = [phase |-> "in",
                    result |-> Put(EmptyDict, "upgrade_preview", Flatten(pieces)),
                    out |-> <<>>]

\* app.py: diffs = extract_diffs_from_markdown(result.get("upgrade_preview", ""))
ViewerCall ==
    /\ pv.phase = "in"
    /\ pv' = [pv EXCEPT !.phase = "viewed",
                        !.out = extract_diffs_from_markdown(
                                    Get(pv.result, "upgrade_preview", <<>>))]
    /\ UNCHANGED <<pipelineVars, rv, zp>>

\* n.py: the same line of its own expander, with its own function
NViewerCall ==
    /\ pv.phase = "in"
    /\ pv' = [pv EXCEPT !.phase = "viewed by n.py",
                        !.out = n_extract_diffs_from_markdown(
                                    Get(pv.result, "upgrade_preview", <<>>))]
    /\ UNCHANGED <<pipelineVars, rv, zp>>

NextDiff == ViewerCall \/ NViewerCall

SpecDiff == InitDiff /\ [][NextDiff]_vars

\* The text of a section of a block's content, white space stripped, or
\* nothing when the content lacks the opening or the closing tag.
HasSection(x, open, close) ==
    \E a, b \in 1..Len(x) : a < b /\ x[a] = open /\ x[b] = close
SectionText(x, open, close) ==
    LET a == CHOOSE a \in 1..Len(x) :
                 /\ x[a] = open
                 /\ \E b \in (a + 1)..Len(x) : x[b] = close
                 /\ \A c \in 1..(a - 1) :
                        ~(x[c] = open /\ \E b \in (c + 1)..Len(x) : x[b] = close)
        b == CHOOSE b \in (a + 1)..Len(x) :
                 x[b] = close /\ \A c \in (a + 1)..(b - 1) : x[c] # close
    IN  Strip(SubSeq(x, a + 1, b - 1))

\* The tuples the claim asks for: one per recognized block holding both
\* sections.
DiffBlocks(t) ==
    {b \in RecognizedBlocks(t) :
        /\ HasSection(ContentOf(t, b), BeforeOpen, BeforeClose)
        /\ HasSection(ContentOf(t, b), AfterOpen, AfterClose)}
DiffTuple(t, b) ==
    <<PathOf(t, b), SectionText(ContentOf(t, b), BeforeOpen, BeforeClose),
      SectionText(ContentOf(t, b), AfterOpen, AfterClose)>>
TuplePerDiffBlock(t, diffs) ==
    /\ Len(diffs) = Cardinality(DiffBlocks(t))
    /\ \A b \in DiffBlocks(t) : \E i \in 1..Len(diffs) : diffs[i] = DiffTuple(t, b)

\* C11 (as claimed): the diffs the pipeline's Upgrade Preview expander gets
\* hold one tuple (path, before, after) for every delimited block that has
\* both a before and an after section, and none for a block missing either.
C11_TuplePerDiffBlock ==
    pv.phase = "viewed" =>
        TuplePerDiffBlock(Get(pv.result, "upgrade_preview", <<>>), pv.out)

====
